---- MODULE Spec2Model ----
(***************************************************************************)
(* Model of ocsp-crawl.go: main's setup, the producer goroutine that maps  *)
(* over the entries file and queries OCSP, the unbuffered channel dataChan *)
(* and the consumer processData.                                           *)
(*                                                                         *)
(* Units: time.Duration values are in milliseconds (Millisecond = 1);      *)
(* time.Time values are whole hours on an arbitrary scale whose origin is  *)
(* Go's zero time.Time.  The flag -v keeps its default, false.             *)
(***************************************************************************)
EXTENDS Integers, Sequences, FiniteSets, TLC

\* ---------------------------------------------------------------- bounds
MaxEntries == 3
MaxTicks == 1

\* ------------------------------------------------------- program constants
Millisecond == 1
Second == 1000
Hour == 3600000
InitialLen == 10000
HexWidth == 32
TrustedIssuer == "Let's Encrypt Authority X1"
MergeDelayIssuer == "Merge Delay Intermediate 1"

\* ------------------------------------------------------------ time values
ZeroTime == 0
StartTime == 200
TickStep == 100

VARIABLES
    mainPc,        \* position of main: "setup", "pipeline", "exited"
    exitCode,      \* process exit status, -1 while running
    setupFailure,  \* the setup step that failed, "" if none
    now,           \* wall clock, hours
    ticks,         \* number of clock advances so far
    audPc,         \* producer goroutine: "idle", "map", "query", "send", "closed"
    idx,           \* entries handed to the Map callback so far
    cur,           \* entry whose OCSP query is in flight or being sent
    dataChan,      \* value offered on the unbuffered channel, <<>> if none
    closed,        \* number of close(dataChan) executed
    aggPc,         \* processData: "idle", "start", "range", "done", "panic"
    begin, latestIssue, totalLatency, latencies, distinct,
    summary,       \* the figures printed by processData, <<>> before
    stdout, stderr,\* lines written, as tags
    passed,        \* entries so far that passed the four eligibility rules
    failed,        \* queries so far whose POST, body read or parse failed
    sent,          \* records offered on dataChan with their entry's number, in order
    received       \* records taken by processData, in order

vars == <<mainPc, exitCode, setupFailure, now, ticks, audPc, idx, cur, dataChan,
          closed, aggPc, begin, latestIssue, totalLatency, latencies, distinct,
          summary, stdout, stderr, passed, failed, sent, received>>

mainVars == <<mainPc, exitCode, setupFailure>>
audVars == <<audPc, idx, cur, passed, failed>>
aggVars == <<aggPc, begin, latestIssue, totalLatency, latencies, distinct, summary>>

\* ------------------------------------------------------------------ inputs
HexDigit == <<"0","1","2","3","4","5","6","7","8","9","a","b","c","d","e","f">>

RECURSIVE HexPad(_, _)
HexPad(n, w) == IF w = 0 THEN <<>>
                ELSE Append(HexPad(n \div 16, w - 1), HexDigit[(n % 16) + 1])

\* fmt.Sprintf("%032x", cert.SerialNumber)
SerialHex(n) == HexPad(n, HexWidth)

Entry(mapErr, certOK, cn, notAfter, extra, ocspServer, createOK, serial, notBefore) ==
    [mapErr |-> mapErr, certOK |-> certOK, issuerCN |-> cn, notAfter |-> notAfter,
     extraCerts |-> extra, ocspServer |-> ocspServer, createOK |-> createOK,
     serialNumber |-> serial, notBefore |-> notBefore]

\* entries of the log file: one per way through the filter
Entries ==
    { Entry(TRUE,  TRUE,  TrustedIssuer,    400, "ok",   TRUE,  TRUE,  1, 10),
      Entry(FALSE, FALSE, TrustedIssuer,    400, "ok",   TRUE,  TRUE,  1, 10),
      Entry(FALSE, TRUE,  "Other CA",       400, "ok",   FALSE, TRUE,  1, 10),
      Entry(FALSE, TRUE,  MergeDelayIssuer, 400, "ok",   FALSE, TRUE,  1, 10),
      Entry(FALSE, TRUE,  TrustedIssuer,    400, "bad",  TRUE,  TRUE,  1, 10),
      Entry(FALSE, TRUE,  TrustedIssuer,    400, "none", FALSE, TRUE,  1, 10),
      Entry(FALSE, TRUE,  TrustedIssuer,    400, "ok",   TRUE,  FALSE, 1, 10),
      Entry(FALSE, TRUE,  TrustedIssuer,    250, "ok",   TRUE,  TRUE,  1, 10),
      Entry(FALSE, TRUE,  TrustedIssuer,    400, "ok",   TRUE,  TRUE,  2, 20) }

Outcome(postOK, latency, readOK, parseOK, thisUpdate, nextUpdate) ==
    [postOK |-> postOK, latency |-> latency, readOK |-> readOK, parseOK |-> parseOK,
     thisUpdate |-> thisUpdate, nextUpdate |-> nextUpdate]

\* what the responder does with one query: the POST fails, the body read
\* fails, the response does not parse, or a response valid from hour 190
\* to hour 250 arrives
Outcomes ==
    { Outcome(FALSE, 100,  TRUE,  TRUE,  190, 250),
      Outcome(TRUE,  100,  FALSE, TRUE,  190, 250),
      Outcome(TRUE,  200,  TRUE,  FALSE, 190, 250),
      Outcome(TRUE,  9000, TRUE,  TRUE,  190, 250) }

SetupSteps == {"NewLog", "OpenFile", "GetSignedTreeHead", "Count",
               "DownloadRange", "HashTree", "HashMismatch"}
\* the steps main skips under -skip-update
UpdateSteps == SetupSteps \ {"NewLog", "OpenFile"}

Init ==
    /\ mainPc = "setup" /\ exitCode = -1 /\ setupFailure = ""
    /\ now = StartTime /\ ticks = 0
    /\ audPc = "idle" /\ idx = 0 /\ cur = <<>> /\ dataChan = <<>> /\ closed = 0
    /\ aggPc = "idle" /\ begin = ZeroTime /\ latestIssue = ZeroTime
    /\ totalLatency = 0 /\ latencies = <<>> /\ distinct = {}
    /\ summary = <<>> /\ stdout = <<>> /\ stderr = <<>>
    /\ passed = 0 /\ failed = 0 /\ sent = <<>> /\ received = <<>>

\* -------------------------------------------------------------------- clock
Tick ==
    /\ ticks < MaxTicks
    /\ ticks' = ticks + 1
    /\ now' = now + TickStep
    /\ UNCHANGED <<mainVars, audVars, dataChan, closed, aggVars, stdout, stderr,
                   sent, received>>

\* --------------------------------------------------------------- main setup
\* SetupFail with a plain return in place of os.Exit(1)
SetupFailReturn(skipUpdate, step) ==
    /\ mainPc = "setup"
    /\ skipUpdate => step \notin UpdateSteps
    /\ mainPc' = "exited" /\ exitCode' = 0 /\ setupFailure' = step
    /\ stderr' = Append(stderr, [line |-> "Fatal", step |-> step])
    /\ UNCHANGED <<now, ticks, audVars, dataChan, closed, aggVars, stdout,
                   sent, received>>

\* lines 58-102: one of the setup steps fails; the message and os.Exit(1)
SetupFail(skipUpdate, step) ==
    /\ mainPc = "setup"
    /\ skipUpdate => step \notin UpdateSteps
    /\ mainPc' = "exited" /\ exitCode' = 1 /\ setupFailure' = step
    /\ stderr' = Append(stderr, [line |-> "Fatal", step |-> step])
    /\ UNCHANGED <<now, ticks, audVars, dataChan, closed, aggVars, stdout,
                   sent, received>>

SetupOK(skipUpdate) ==
    /\ mainPc = "setup"
    /\ mainPc' = "pipeline" /\ audPc' = "map" /\ aggPc' = "start"
    /\ UNCHANGED <<exitCode, setupFailure, now, ticks, idx, cur, passed, failed, dataChan,
                   closed, begin, latestIssue, totalLatency, latencies, distinct,
                   summary, stdout, stderr, sent, received>>

\* ------------------------------------------------- producer goroutine
\* FilterEntry without the message of line 130
FilterEntrySilentIssuer(e, t) ==
    IF e.mapErr THEN [verdict |-> "drop", diag |-> <<>>]
    ELSE IF ~e.certOK THEN [verdict |-> "drop", diag |-> <<>>]
    ELSE IF e.issuerCN # TrustedIssuer THEN [verdict |-> "drop", diag |-> <<>>]
    ELSE IF t > e.notAfter THEN [verdict |-> "drop", diag |-> <<>>]
    ELSE IF e.extraCerts = "bad" THEN [verdict |-> "drop", diag |-> <<>>]
    ELSE IF ~e.ocspServer
         THEN [verdict |-> "drop",
               diag |-> IF e.issuerCN # MergeDelayIssuer
                        THEN <<[line |-> "No OCSP Server", cn |-> e.issuerCN]>>
                        ELSE <<>>]
    ELSE IF ~e.createOK
         THEN [verdict |-> "drop", diag |-> <<[line |-> "Error creating OCSP request"]>>]
    ELSE [verdict |-> "query", diag |-> <<>>]

\* lines 110-146 of the Map callback: what happens to entry e at time t
\* before the POST: "drop" with the diagnostics printed, or "query".
FilterEntry(e, t) ==
    IF e.mapErr THEN [verdict |-> "drop", diag |-> <<>>]
    ELSE IF ~e.certOK THEN [verdict |-> "drop", diag |-> <<>>]
    ELSE IF e.issuerCN # TrustedIssuer THEN [verdict |-> "drop", diag |-> <<>>]
    ELSE IF t > e.notAfter THEN [verdict |-> "drop", diag |-> <<>>]
    ELSE IF e.extraCerts = "bad"
         THEN [verdict |-> "drop", diag |-> <<[line |-> "Failed to parse issuer"]>>]
    ELSE IF ~e.ocspServer
         THEN [verdict |-> "drop",
               diag |-> IF e.issuerCN # MergeDelayIssuer
                        THEN <<[line |-> "No OCSP Server", cn |-> e.issuerCN]>>
                        ELSE <<>>]
    ELSE IF ~e.createOK
         THEN [verdict |-> "drop", diag |-> <<[line |-> "Error creating OCSP request"]>>]
    ELSE [verdict |-> "query", diag |-> <<>>]

\* The four eligibility rules: the certificate parses, its issuer common
\* name is the trusted issuer, it is not expired at time t, and it carries
\* an OCSP server URL.
Eligible(e, t) ==
    /\ ~e.mapErr /\ e.certOK
    /\ e.issuerCN = TrustedIssuer
    /\ ~(t > e.notAfter)
    /\ e.ocspServer

\* lines 154-160: the datum built once http.Post has returned without error
NewDatum(e, o) ==
    [serial |-> SerialHex(e.serialNumber), notBefore |-> e.notBefore,
     nextUpdate |-> ZeroTime, thisUpdate |-> ZeroTime,
     ocspLatency |-> o.latency, ocspErr |-> "nil"]

\* line 161
SlowResponse(latency) == latency > Second

\* lines 149-184: the outcome of the POST for entry e.  err is nil at line
\* 165 because line 149 has already returned on a non-nil err.
PostResult(e, o) ==
    IF ~o.postOK
    THEN [emit |-> FALSE, datum |-> <<>>, out |-> <<>>,
          diag |-> <<[line |-> "Error fetching OCSP"]>>]
    ELSE LET datum == NewDatum(e, o)
             out == IF SlowResponse(datum.ocspLatency)
                    THEN <<[line |-> "slow response", serial |-> datum.serial]>>
                    ELSE <<>>
             errAfterPost == FALSE
         IN IF errAfterPost
            THEN [emit |-> TRUE, datum |-> [datum EXCEPT !.ocspErr = "error fetching OCSP"],
                  out |-> out, diag |-> <<>>]
            ELSE IF ~o.readOK
            THEN [emit |-> TRUE, datum |-> [datum EXCEPT !.ocspErr = "error reading OCSP"],
                  out |-> out, diag |-> <<>>]
            ELSE IF ~o.parseOK
            THEN [emit |-> TRUE,
                  datum |-> [datum EXCEPT !.ocspErr = "error parsing OCSP response"],
                  out |-> out, diag |-> <<>>]
            ELSE [emit |-> TRUE,
                  datum |-> [datum EXCEPT !.nextUpdate = o.nextUpdate,
                                          !.thisUpdate = o.thisUpdate],
                  out |-> out, diag |-> <<>>]

\* the query failed at one of the three stages after the request was built
QueryFailed(o) == ~o.postOK \/ ~o.readOK \/ ~o.parseOK

\* MapEntry with a goroutine per entry: the next entry starts at once
MapEntryAsync(e) ==
    /\ mainPc = "pipeline" /\ audPc \in {"map", "query", "send"}
    /\ idx < MaxEntries
    /\ idx' = idx + 1
    /\ passed' = IF Eligible(e, now) THEN passed + 1 ELSE passed
    /\ LET f == FilterEntry(e, now)
       IN /\ stderr' = stderr \o f.diag
          /\ IF f.verdict = "query"
             THEN audPc' = "query" /\ cur' = <<e>>
             ELSE audPc' = audPc /\ cur' = cur
    /\ UNCHANGED <<mainVars, now, ticks, failed, dataChan, closed, aggVars, stdout,
                   sent, received>>

\* entriesFile.Map hands the next entry to the callback, which filters it
\* and, if it survives, starts the POST.
MapEntry(e) ==
    /\ mainPc = "pipeline" /\ audPc = "map"
    /\ idx < MaxEntries
    /\ idx' = idx + 1
    /\ passed' = IF Eligible(e, now) THEN passed + 1 ELSE passed
    /\ LET f == FilterEntry(e, now)
       IN /\ stderr' = stderr \o f.diag
          /\ IF f.verdict = "query"
             THEN audPc' = "query" /\ cur' = <<e>>
             ELSE audPc' = "map" /\ cur' = <<>>
    /\ UNCHANGED <<mainVars, now, ticks, failed, dataChan, closed, aggVars, stdout,
                   sent, received>>

\* PostReturn with a send that does not wait for the receiver
PostReturnNoWait(o) ==
    /\ mainPc = "pipeline" /\ audPc = "query"
    /\ LET r == PostResult(cur[1], o)
       IN /\ stdout' = stdout \o r.out
          /\ stderr' = stderr \o r.diag
          /\ audPc' = "map" /\ cur' = <<>>
          /\ IF r.emit
             THEN /\ dataChan' = <<r.datum>>
                  /\ sent' = Append(sent, [entry |-> idx, datum |-> r.datum])
             ELSE UNCHANGED <<dataChan, sent>>
    /\ failed' = IF QueryFailed(o) THEN failed + 1 ELSE failed
    /\ UNCHANGED <<mainVars, now, ticks, idx, passed, closed, aggVars, received>>

\* http.Post returns; the callback either returns or blocks in the send.
PostReturn(o) ==
    /\ mainPc = "pipeline" /\ audPc = "query"
    /\ LET r == PostResult(cur[1], o)
       IN /\ stdout' = stdout \o r.out
          /\ stderr' = stderr \o r.diag
          /\ IF r.emit
             THEN /\ audPc' = "send"
                  /\ dataChan' = <<r.datum>>
                  /\ sent' = Append(sent, [entry |-> idx, datum |-> r.datum])
                  /\ cur' = cur
             ELSE /\ audPc' = "map" /\ cur' = <<>>
                  /\ UNCHANGED <<dataChan, sent>>
    /\ failed' = IF QueryFailed(o) THEN failed + 1 ELSE failed
    /\ UNCHANGED <<mainVars, now, ticks, idx, passed, closed, aggVars, received>>

\* CloseChan with the close placed inside the callback: Map goes on
CloseChanEarly ==
    /\ mainPc = "pipeline" /\ audPc = "map"
    /\ audPc' = "map"
    /\ closed' = closed + 1
    /\ UNCHANGED <<mainVars, now, ticks, idx, cur, passed, failed, dataChan, aggVars,
                   stdout, stderr, sent, received>>

\* CloseChan with the close forgotten: the goroutine just ends
CloseChanOmitted ==
    /\ mainPc = "pipeline" /\ audPc = "map"
    /\ audPc' = "closed"
    /\ closed' = closed
    /\ UNCHANGED <<mainVars, now, ticks, idx, cur, passed, failed, dataChan, aggVars,
                   stdout, stderr, sent, received>>

\* Map has reached the end of the file: line 186.
CloseChan ==
    /\ mainPc = "pipeline" /\ audPc = "map"
    /\ audPc' = "closed"
    /\ closed' = closed + 1
    /\ UNCHANGED <<mainVars, now, ticks, idx, cur, passed, failed, dataChan, aggVars,
                   stdout, stderr, sent, received>>

\* ----------------------------------------------------------- processData
Zeros(n) == [i \in 1..n |-> 0]

\* lines 198-202
Begin ==
    /\ mainPc = "pipeline" /\ aggPc = "start"
    /\ aggPc' = "range"
    /\ begin' = now
    /\ latestIssue' = ZeroTime
    /\ totalLatency' = 0
    /\ latencies' = Zeros(InitialLen)
    /\ distinct' = {}
    /\ UNCHANGED <<mainVars, now, ticks, audVars, dataChan, closed, summary,
                   stdout, stderr, sent, received>>

\* BadlyOutOfDate with the clock read again for each record
BadlyOutOfDateNow(b, t, d) == t > d.nextUpdate

\* line 213: begin.After(datum.nextUpdate); t is the clock at the receive
BadlyOutOfDate(b, t, d) == b > d.nextUpdate

\* line 216: begin.Sub(datum.thisUpdate) > time.Hour*24*4
OutOfDate(b, t, d) == (b - d.thisUpdate) * Hour > Hour * 24 * 4

\* lines 210-218: the lines written to standard error for datum d
Warnings(b, t, d) ==
    (IF d.ocspErr # "nil" THEN <<[line |-> d.ocspErr, serial |-> d.serial]>> ELSE <<>>)
    \o (IF BadlyOutOfDate(b, t, d)
        THEN <<[line |-> "Badly out of date response", serial |-> d.serial]>> ELSE <<>>)
    \o (IF OutOfDate(b, t, d)
        THEN <<[line |-> "Out of date response", serial |-> d.serial]>> ELSE <<>>)

\* line 207
LaterIssue(latest, d) == IF d.notBefore > latest THEN d.notBefore ELSE latest

\* Receive with the statistics skipped for a record that carries an error
ReceiveSkipErrors ==
    /\ mainPc = "pipeline" /\ aggPc = "range"
    /\ dataChan # <<>>
    /\ LET d == dataChan[1]
       IN /\ latestIssue' = LaterIssue(latestIssue, d)
          /\ stderr' = stderr \o Warnings(begin, now, d)
          /\ IF d.ocspErr # "nil"
             THEN UNCHANGED <<latencies, totalLatency, distinct>>
             ELSE /\ latencies' = Append(latencies, d.ocspLatency)
                  /\ totalLatency' = totalLatency + d.ocspLatency
                  /\ distinct' = distinct \cup {d.serial}
          /\ received' = Append(received, d)
    /\ dataChan' = <<>>
    /\ audPc' = "map" /\ cur' = <<>>
    /\ UNCHANGED <<mainVars, now, ticks, idx, passed, failed, closed, aggPc, begin,
                   summary, stdout, sent>>

\* one iteration of the range loop, lines 203-222; the receive completes
\* the producer's blocked send, whose callback then returns to Map
Receive ==
    /\ mainPc = "pipeline" /\ aggPc = "range"
    /\ dataChan # <<>>
    /\ LET d == dataChan[1]
       IN /\ latestIssue' = LaterIssue(latestIssue, d)
          /\ stderr' = stderr \o Warnings(begin, now, d)
          /\ latencies' = Append(latencies, d.ocspLatency)
          /\ totalLatency' = totalLatency + d.ocspLatency
          /\ distinct' = distinct \cup {d.serial}
          /\ received' = Append(received, d)
    /\ dataChan' = <<>>
    /\ audPc' = "map" /\ cur' = <<>>
    /\ UNCHANGED <<mainVars, now, ticks, idx, passed, failed, closed, aggPc, begin,
                   summary, stdout, sent>>

\* int64slice.Less, line 195
Less(a, b) == a < b

\* sort.Sort(latencies), line 223
SortAsc(s) == SortSeq(s, Less)

\* Summarize with two arguments of the last Printf exchanged
SummarizeSwapped(sorted, total, dist, b, latest) ==
    LET n == Len(sorted)
        median == sorted[(n \div 2) + 1]
        mean == total \div n
        ninetieth == sorted[((n * 9) \div 10) + 1]
        max == sorted[n]
    IN [count |-> n, distinct |-> Cardinality(dist),
        timeSinceLatest |-> max \div Millisecond,
        median |-> median \div Millisecond, mean |-> mean \div Millisecond,
        ninetieth |-> ninetieth \div Millisecond, max |-> b - latest]

\* lines 224-233: the figures printed, from the sorted samples
Summarize(sorted, total, dist, b, latest) ==
    LET n == Len(sorted)
        median == sorted[(n \div 2) + 1]
        mean == total \div n
        ninetieth == sorted[((n * 9) \div 10) + 1]
        max == sorted[n]
    IN [count |-> n, distinct |-> Cardinality(dist),
        timeSinceLatest |-> b - latest,
        median |-> median \div Millisecond, mean |-> mean \div Millisecond,
        ninetieth |-> ninetieth \div Millisecond, max |-> max \div Millisecond]

\* lines 203-222 over a whole stream q: the running state after the loop
RECURSIVE Consume(_, _, _)
Consume(st, q, b) ==
    IF q = <<>> THEN st
    ELSE LET d == Head(q)
         IN Consume([latestIssue |-> LaterIssue(st.latestIssue, d),
                     warnings |-> st.warnings \o Warnings(b, b, d),
                     latencies |-> Append(st.latencies, d.ocspLatency),
                     totalLatency |-> st.totalLatency + d.ocspLatency,
                     distinct |-> st.distinct \cup {d.serial}],
                    Tail(q), b)

\* processData as a function of the stream q and of the time b that
\* time.Now() returns at line 198: the lines written to standard error and
\* the figures printed
ProcessData(q, b) ==
    CHOOSE out \in
        { [warnings |-> st.warnings,
           summary |-> CHOOSE sm \in { Summarize(sorted, st.totalLatency, st.distinct,
                                                  b, st.latestIssue) :
                                         sorted \in {SortAsc(st.latencies)} } : TRUE] :
          st \in { Consume([latestIssue |-> ZeroTime, warnings |-> <<>>,
                            latencies |-> Zeros(InitialLen), totalLatency |-> 0,
                            distinct |-> {}], q, b) } } : TRUE

\* the range loop ends on the closed channel; lines 223-234.  Indexing an
\* empty slice and dividing by a zero length panic.
Finalize ==
    /\ mainPc = "pipeline" /\ aggPc = "range"
    /\ dataChan = <<>> /\ closed > 0
    /\ latencies' = SortAsc(latencies)
    /\ IF Len(latencies') = 0
       THEN /\ aggPc' = "panic" /\ mainPc' = "exited" /\ exitCode' = 2
            /\ UNCHANGED <<summary, stdout>>
       ELSE /\ aggPc' = "done"
            /\ summary' = <<Summarize(latencies', totalLatency, distinct, begin, latestIssue)>>
            /\ stdout' = Append(stdout, [line |-> "Count", count |-> summary'[1].count])
            /\ UNCHANGED <<mainPc, exitCode>>
    /\ UNCHANGED <<setupFailure, now, ticks, audVars, dataChan, closed, begin,
                   latestIssue, totalLatency, distinct, stderr, sent, received>>

\* processData returns and main returns: line 189
MainReturn ==
    /\ mainPc = "pipeline" /\ aggPc = "done"
    /\ mainPc' = "exited" /\ exitCode' = 0
    /\ UNCHANGED <<setupFailure, now, ticks, audVars, dataChan, closed, aggVars,
                   stdout, stderr, sent, received>>

Auditor == (\E e \in Entries : MapEntry(e)) \/ (\E o \in Outcomes : PostReturn(o)) \/ CloseChan

Aggregator == Begin \/ Receive \/ Finalize \/ MainReturn

Setup == (\E s \in BOOLEAN, st \in SetupSteps : SetupFail(s, st)) \/ (\E s \in BOOLEAN : SetupOK(s))

Next == Tick \/ Setup \/ Auditor \/ Aggregator

Spec == Init /\ [][Next]_vars

\* The same program over fewer kinds of entry (one dropped silently, one
\* dropped with a diagnostic, one queried), each goroutine scheduled fairly
\* and every POST returning.
LiveEntries == {e \in Entries : e.mapErr \/ e.extraCerts = "bad" \/ e.serialNumber = 2}

AuditorLive == (\E e \in LiveEntries : MapEntry(e)) \/ (\E o \in Outcomes : PostReturn(o))
                   \/ CloseChan

NextLive == Tick \/ Setup \/ AuditorLive \/ Aggregator

FairSpec == Init /\ [][NextLive]_vars /\ WF_vars(AuditorLive) /\ WF_vars(Aggregator)

\* ============================================================ properties
Datums(q) == [i \in DOMAIN q |-> q[i].datum]

IsPrefix(p, q) == Len(p) <= Len(q) /\ \A i \in 1..Len(p) : p[i] = q[i]

Lines(out, tag) == {i \in DOMAIN out : out[i].line = tag}

Serials(q) == {q[i].serial : i \in DOMAIN q}

MaxLatency(q) == CHOOSE m \in {q[i].ocspLatency : i \in DOMAIN q} :
                    \A i \in DOMAIN q : q[i].ocspLatency <= m

MinLatency(q) == CHOOSE m \in {q[i].ocspLatency : i \in DOMAIN q} :
                    \A i \in DOMAIN q : m <= q[i].ocspLatency

ErrorRecords(q) == {i \in DOMAIN q : /\ q[i].datum.ocspErr # "nil"
                                     /\ q[i].datum.thisUpdate = ZeroTime
                                     /\ q[i].datum.nextUpdate = ZeroTime}

Parsed(d) == d.ocspErr = "nil"

Finished == aggPc = "done"

\* C1: when the run completes, the number of records sent on the channel
\* equals the number of entries that passed the four eligibility rules.
C1_RecordPerEligibleEntry == Finished => Len(sent) = passed

\* C2: every query that failed at the POST, the body read or the response
\* parse has produced one record with the error set and thisUpdate and
\* nextUpdate absent, and the process has not been terminated by it.
C2_FailedQueryRecorded ==
    (mainPc = "pipeline" /\ audPc # "query") =>
        /\ Cardinality(ErrorRecords(sent)) = failed
        /\ exitCode = -1

\* C3: the channel is closed exactly once, only after the last entry has
\* been processed, and nothing is sent (and no entry handled) after the close.
C3_ClosedOnceAfterLastEntry ==
    /\ [](closed <= 1)
    /\ [](Finished => closed = 1)
    /\ [](closed = 1 => audPc = "closed" /\ cur = <<>> /\ dataChan = <<>>)
    /\ [][closed >= 1 => sent' = sent /\ idx' = idx /\ closed' = closed]_vars

C3_Witness == closed = 1 /\ Len(sent) >= 2 /\ idx = MaxEntries

\* C4: the records received are at every point a prefix of the records
\* sent, all of them once the stream has ended, and the records are sent in
\* the order of their entries in the log.
C4_ReceivedPrefixOfSent ==
    /\ IsPrefix(received, Datums(sent))
    /\ Len(sent) - Len(received) = (IF dataChan = <<>> THEN 0 ELSE 1)
    /\ dataChan # <<>> => dataChan[1] = sent[Len(sent)].datum
    /\ \A i, j \in DOMAIN sent : i < j => sent[i].entry < sent[j].entry
    /\ Finished => received = Datums(sent)

C4_Witness ==
    /\ Len(received) >= 2 /\ Len(sent) = Len(received) + 1
    /\ received[1] # received[2]

\* C5: under fair scheduling a run that reaches the pipeline finalizes and
\* returns; the summary is printed once, only after the close and after
\* every record sent has been received.
C5_PipelineTerminates ==
    /\ (mainPc = "pipeline") ~> (mainPc = "exited" /\ exitCode = 0)
    /\ [](Cardinality(Lines(stdout, "Count")) <= 1)
    /\ [](Finished => /\ Cardinality(Lines(stdout, "Count")) = 1
                      /\ closed = 1
                      /\ received = Datums(sent))
    /\ [][Finished => latencies' = latencies /\ summary' = summary]_vars

C5_Witness ==
    /\ mainPc = "exited" /\ exitCode = 0 /\ Finished
    /\ Len(received) >= 2 /\ idx = MaxEntries

\* C6: after n >= 1 records the summary reports count n, the number of
\* different serials, and the largest latency.
C6_SummaryCounts ==
    (Finished /\ received # <<>>) =>
        /\ summary[1].count = Len(received)
        /\ summary[1].distinct = Cardinality(Serials(received))
        /\ summary[1].max = MaxLatency(received) \div Millisecond

\* C7: the distinct count is at most the total count, and they are equal
\* exactly when no serial occurs in two records.
C7_DistinctAtMostCount ==
    Finished =>
        /\ summary[1].distinct <= summary[1].count
        /\ (summary[1].distinct = summary[1].count)
             <=> (\A i, j \in DOMAIN received :
                     received[i].serial = received[j].serial => i = j)

\* C8: for a non-empty stream, median <= 90th percentile <= max, and the
\* mean lies between the smallest and the largest latency of the stream.
C8_StatisticsOrdered ==
    (Finished /\ received # <<>>) =>
        /\ summary[1].median <= summary[1].ninetieth
        /\ summary[1].ninetieth <= summary[1].max
        /\ MinLatency(received) \div Millisecond <= summary[1].mean
        /\ summary[1].mean <= MaxLatency(received) \div Millisecond

\* C9: a stream that closes with no record ends without a panic and
\* without any latency statistics being reported.
C9_EmptyStreamNoData ==
    (received = <<>> /\ aggPc \in {"done", "panic"}) =>
        /\ aggPc = "done"
        /\ summary = <<>>
        /\ Lines(stdout, "Count") = {}

\* C10: a received record whose parsed nextUpdate is before the time taken
\* at aggregation start gets exactly one "badly out of date" line when it
\* is received, a parsed record that is not gets none, the record enters
\* the latency samples and the sum, and the reference time never changes.
C10_BadlyOutOfDateOnce ==
    /\ [][received' # received =>
            LET d == received'[Len(received')]
                new == SubSeq(stderr', Len(stderr) + 1, Len(stderr'))
                n == Cardinality({i \in Lines(new, "Badly out of date response") :
                                     new[i].serial = d.serial})
            IN /\ Parsed(d) => n = (IF d.nextUpdate < begin THEN 1 ELSE 0)
               /\ latencies' = Append(latencies, d.ocspLatency)
               /\ totalLatency' = totalLatency + d.ocspLatency
               /\ d.serial \in distinct']_vars
    /\ [][aggPc = "range" => begin' = begin]_vars
    /\ [](Finished => summary[1].count = InitialLen + Len(received))

C10_Witness ==
    /\ \E i \in DOMAIN received : Parsed(received[i]) /\ received[i].nextUpdate < begin
    /\ Lines(stderr, "Badly out of date response") # {}

SlowSent(q) == {i \in DOMAIN q : q[i].datum.ocspLatency > Second}

\* C11: one "slow response" line on standard error for every
\* record whose latency exceeds one second, written by the time the record
\* is sent, and none for the other records.
C11_SlowWarningOnStderr ==
    Cardinality(Lines(stderr, "slow response")) = Cardinality(SlowSent(sent))

\* a certificate that parses and is not expired at time t but names no
\* OCSP server
NoOCSPServer(e, t) == ~e.mapErr /\ e.certOK /\ ~(t > e.notAfter) /\ ~e.ocspServer

\* C12: a well-formed, unexpired certificate without an OCSP server URL
\* yields no record, and no diagnostic line if its issuer is "Merge Delay
\* Intermediate 1" but exactly one for any other issuer.
C12_NoOCSPDiagnostic ==
    [][\A e \in Entries : (MapEntry(e) /\ NoOCSPServer(e, now)) =>
          /\ sent' = sent /\ audPc' = "map"
          /\ stdout' = stdout
          /\ Len(stderr') - Len(stderr) = (IF e.issuerCN = MergeDelayIssuer THEN 0 ELSE 1)]_vars

\* C13: a failed setup step ends the process with exit code 1 before either
\* goroutine of the pipeline has started: no entry audited, no record sent,
\* no summary; a run whose setup succeeded ends with exit code 0, failed
\* queries or not; nothing happens after the exit.
C13_SetupFailureExits ==
    /\ [](setupFailure # "" =>
            /\ mainPc = "exited" /\ exitCode = 1
            /\ audPc = "idle" /\ aggPc = "idle"
            /\ idx = 0 /\ sent = <<>> /\ received = <<>>
            /\ summary = <<>> /\ Lines(stdout, "Count") = {})
    /\ [](exitCode = 1 => setupFailure \in SetupSteps)
    /\ []((mainPc = "exited" /\ setupFailure = "") => (exitCode = 0 /\ Finished))
    /\ [][mainPc = "exited" =>
            UNCHANGED <<mainVars, audVars, aggVars, dataChan, closed, stdout, stderr,
                        sent, received>>]_vars

C13_Witness ==
    /\ mainPc = "exited" /\ exitCode = 1
    /\ setupFailure = "HashMismatch"
    /\ Lines(stderr, "Fatal") # {}

\* the times at which an aggregation can start
StartTimes == {StartTime + k * TickStep : k \in 0..MaxTicks}

AggregatorLines == {"error fetching OCSP", "error reading OCSP",
                    "error parsing OCSP response", "Badly out of date response",
                    "Out of date response"}

IsAggregatorLine(l) == l.line \in AggregatorLines

\* what processData has written in this run
RunOutput == [warnings |-> SelectSeq(stderr, IsAggregatorLine), summary |-> summary[1]]

LatencyFigures(sm) == <<sm.count, sm.distinct, sm.median, sm.mean, sm.ninetieth, sm.max>>

JustFinalized == Finished /\ mainPc = "pipeline"

\* C14: a second aggregation over the records of this run, started at any
\* time, gives the same summary and the same per-record warnings as this run.
C14_SameOutputAtAnyStart ==
    JustFinalized => \A b \in StartTimes : ProcessData(received, b) = RunOutput

\* C14 amended: a second aggregation over the same records started at the
\* same time gives the same summary and warnings; started at another time
\* it still gives the same count, distinct count, median, mean, 90th
\* percentile and max.
C14_SameOutputAtSameStart ==
    JustFinalized =>
        /\ ProcessData(received, begin) = RunOutput
        /\ \A b \in StartTimes :
              LatencyFigures(ProcessData(received, b).summary) = LatencyFigures(summary[1])

C14_Witness ==
    /\ JustFinalized /\ Len(received) >= 2
    /\ RunOutput.warnings # <<>>
    /\ \E b \in StartTimes : b # begin

RECURSIVE SumLatency(_)
SumLatency(q) == IF q = <<>> THEN 0 ELSE Head(q).ocspLatency + SumLatency(Tail(q))

\* C15: a record that carries an error is counted like any other: its
\* latency is appended to the samples and added to the running sum and its
\* serial joins the distinct set, so the printed count, mean and max cover
\* the failed queries.
C15_ErrorRecordsInStatistics ==
    /\ [][(received' # received /\ ~Parsed(received'[Len(received')])) =>
            LET d == received'[Len(received')]
            IN /\ latencies' = Append(latencies, d.ocspLatency)
               /\ totalLatency' = totalLatency + d.ocspLatency
               /\ distinct' = distinct \cup {d.serial}]_vars
    /\ [](Finished =>
            /\ summary[1].count = InitialLen + Len(received)
            /\ summary[1].distinct = Cardinality(Serials(received))
            /\ summary[1].mean = (SumLatency(received) \div summary[1].count) \div Millisecond
            /\ received # <<>> => summary[1].max = MaxLatency(received) \div Millisecond)

C15_Witness ==
    /\ Finished /\ Len(received) >= 2
    /\ \A i \in DOMAIN received : ~Parsed(received[i])
    /\ summary[1].max = 200

\* the entry's certificate does not parse
MalformedCert(e) == e.mapErr \/ ~e.certOK

\* the certificate parses, the first extra certificate does not
MalformedIssuer(e) == ~e.mapErr /\ e.certOK /\ e.extraCerts = "bad"

\* the callback returns to Map with nothing sent and no query started
Skipped == sent' = sent /\ dataChan' = dataChan /\ audPc' = "map" /\ idx' = idx + 1

\* C16: an entry whose certificate or whose issuer certificate is
\* malformed is skipped with no record and no line on either stream.
C16_MalformedSkippedSilently ==
    [][\A e \in Entries : (MapEntry(e) /\ (MalformedCert(e) \/ MalformedIssuer(e))) =>
          (Skipped /\ stdout' = stdout /\ stderr' = stderr)]_vars

\* C16 amended: an entry whose certificate is malformed is skipped with no
\* record and no line on either stream; an entry whose certificate parses,
\* names the trusted issuer and is unexpired but whose issuer certificate is
\* malformed is skipped with no record and exactly one "Failed to parse
\* issuer" line on standard error.
C16_MalformedIssuerReported ==
    [][\A e \in Entries :
          /\ (MapEntry(e) /\ MalformedCert(e)) =>
                (Skipped /\ stdout' = stdout /\ stderr' = stderr)
          /\ (MapEntry(e) /\ MalformedIssuer(e) /\ e.issuerCN = TrustedIssuer
                 /\ ~(now > e.notAfter)) =>
                /\ Skipped /\ stdout' = stdout
                /\ stderr' = Append(stderr, [line |-> "Failed to parse issuer"])]_vars

C16_Witness ==
    /\ idx >= 2 /\ sent = <<>>
    /\ Cardinality(Lines(stderr, "Failed to parse issuer")) = 1
    /\ Len(stderr) = 1

LatencySeq(q) == [i \in DOMAIN q |-> q[i].ocspLatency]

\* C17: over the n >= 1 latencies received, sorted ascending, the median is
\* the middle one (for even n the one at 0-based index n/2 - 1), the 90th
\* percentile the one at index floor(n * 0.9), the mean their sum divided
\* by n, truncated, and the max the one at index n - 1.
C17_StatisticsFormulas ==
    (Finished /\ received # <<>>) =>
        LET n == Len(received)
            sorted == SortAsc(LatencySeq(received))
            mid == IF n % 2 = 0 THEN (n \div 2) - 1 ELSE n \div 2
        IN /\ summary[1].median = sorted[mid + 1] \div Millisecond
           /\ summary[1].ninetieth = sorted[((n * 9) \div 10) + 1] \div Millisecond
           /\ summary[1].mean = (SumLatency(received) \div n) \div Millisecond
           /\ summary[1].max = sorted[n] \div Millisecond

\* C18: the send of a record never waits: the producer, having offered a
\* record, can always take its next step without the consumer.
C18_SendNeverWaits ==
    (mainPc = "pipeline" /\ audPc = "send") => ENABLED Auditor

\* C18 amended: the channel is unbuffered: the producer, having offered a
\* record, can do nothing until processData receives that very record; at
\* most one record is ever unreceived, and none while a query is in flight.
C18_SendWaitsForReceiver ==
    /\ [](audPc = "send" => (dataChan # <<>> /\ ~ENABLED Auditor))
    /\ [](Len(sent) - Len(received) <= 1)
    /\ [](audPc = "query" => Len(sent) = Len(received))
    /\ [][(audPc = "send" /\ audPc' # "send") =>
            (received' = Append(received, dataChan[1]) /\ dataChan' = <<>>)]_vars

C18_Witness ==
    /\ audPc = "send" /\ dataChan # <<>>
    /\ Len(received) >= 1 /\ idx < MaxEntries
    /\ ~ENABLED Auditor

\* C19: at most one OCSP query is in flight, and the callback is not
\* entered for the next entry before the previous entry is done with:
\* dropped, or queried with its record, if any, sent and received.
C19_AuditorSequential ==
    /\ [](Len(cur) <= 1)
    /\ []((audPc = "query") <=> (cur # <<>> /\ dataChan = <<>>))
    /\ [](audPc = "query" => Len(sent) = Len(received))
    /\ [][idx' # idx =>
            /\ idx' = idx + 1
            /\ audPc = "map" /\ cur = <<>> /\ dataChan = <<>>
            /\ Len(sent) = Len(received)
            /\ \A i \in DOMAIN sent : sent[i].entry <= idx]_vars
    /\ [][(audPc = "query" /\ audPc' = "map") => cur' = <<>>]_vars

C19_Witness ==
    /\ audPc = "query" /\ idx >= 2
    /\ Len(received) >= 1

StalenessLines == {"Badly out of date response", "Out of date response"}

IsStalenessLine(l) == l.line \in StalenessLines

\* the staleness warnings among the lines a step adds to standard error
NewStaleness == SelectSeq(SubSeq(stderr', Len(stderr) + 1, Len(stderr')), IsStalenessLine)

\* C20: receiving a record adds a staleness warning only when the record
\* carries a parsed response that is past nextUpdate at the aggregation
\* start or whose thisUpdate is more than 4 days before it; a record of a
\* failed query adds its error line and no staleness warning.
C20_StalenessOnlyForParsed ==
    [][received' # received =>
          LET d == received'[Len(received')]
          IN /\ NewStaleness # <<>> =>
                  /\ Parsed(d)
                  /\ \/ d.nextUpdate < begin
                     \/ (begin - d.thisUpdate) * Hour > Hour * 24 * 4
             /\ ~Parsed(d) =>
                  /\ NewStaleness = <<>>
                  /\ Len(stderr') = Len(stderr) + 1
                  /\ stderr'[Len(stderr')].line = d.ocspErr]_vars
====
